---- MODULE Spec2Model ----
(***************************************************************************)
(* TowerTech society management server (src/server.ts, the JWT version     *)
(* that starts at line 271): the SQLite tables as sequences of rows, one   *)
(* action per Express route handler.  A handler is synchronous JavaScript  *)
(* over better-sqlite3, so it runs to completion in one event-loop turn.   *)
(* better-sqlite3 enforces FOREIGN KEY clauses (it is built with           *)
(* SQLITE_DEFAULT_FOREIGN_KEYS=1) and binds undefined as NULL.             *)
(***************************************************************************)
EXTENDS Integers, Sequences, FiniteSets, TLC

VARIABLES users, flats, bills, bookings, activity_logs, last, slots, running,
          alerts, events, complaints, visitors, now,
          expenses, towers, seedPc, listening

vars == <<users, flats, bills, bookings, activity_logs, last, slots, running,
          alerts, events, complaints, visitors, now,
          expenses, towers, seedPc, listening>>

\* the position of seedData and whether app.listen has run
boot == <<seedPc, listening>>

\* what no route writes: the tables expenses and towers, and the start-up
fixed == <<expenses, towers, boot>>

\* the tables the billing and booking routes never write, and the wall clock
rest == <<alerts, events, complaints, visitors, now, fixed>>

tables == <<users, flats, bills, bookings, activity_logs, alerts, events, complaints, visitors,
            expenses, towers>>

(***************************************************************************)
(* Bounds of the model.                                                    *)
(***************************************************************************)
\* flats of the store (the seed inserts 112; the model keeps the first few)
NumFlats == 3
\* rows the activity log may reach: the number of logged operations explored
MaxLog == 3
\* requests admitted concurrently in SpecConc
MaxInFlight == 2
\* seconds the wall clock may reach in SpecVisitors
MaxTime == 3
\* rows of flats, complaints and visitors in the stores SpecStats starts from
MaxRows == 1
\* rows of bills in the stores SpecStats starts from
MaxBills == 2
\* rows of expenses in the stores SpecPredict starts from
MaxExpenses == 3

(***************************************************************************)
(* Values.                                                                 *)
(***************************************************************************)
\* SQL NULL, which is also what an absent JSON field is bound as
Null == "NULL"

\* WHERE col = ? : NULL compares equal to nothing, not even to NULL
SqlEq(a, b) == a # Null /\ b # Null /\ a = b

\* the Authorization header of a request: absent, a token that does not
\* verify, or (a positive number) the token login issued to that users.id
NoToken == 0
BadToken == -1

\* amount of every seeded bill
SeedAmount == 1500

\* new Date().toLocaleString('default', {month: 'long', year: 'numeric'})
CurrentMonth == "March 2026"
SeedDueDate == "2026-03-10"

\* rows of flatData (A-101, A-103, B-101, A-102, A-104), enough for the bound
FlatRows ==
    << [id |-> "A-101", maintenance_status |-> "Paid"],
       [id |-> "A-103", maintenance_status |-> "Unpaid"],
       [id |-> "B-101", maintenance_status |-> "Paid"],
       [id |-> "A-102", maintenance_status |-> "Paid"],
       [id |-> "A-104", maintenance_status |-> "Paid"] >>

flatData == SubSeq(FlatRows, 1, NumFlats)

SeedUsers ==
    << [username |-> "admin", role |-> "admin", flat_id |-> Null],
       [username |-> "security", role |-> "security", flat_id |-> Null],
       [username |-> "resident", role |-> "resident", flat_id |-> "A-101"],
       [username |-> "res-b101", role |-> "resident", flat_id |-> "B-101"] >>

SeedBills ==
    [i \in 1..Len(flatData) |->
        [flat_id |-> flatData[i].id, amount |-> SeedAmount, month |-> CurrentMonth,
         due_date |-> SeedDueDate, status |-> flatData[i].maintenance_status]]

\* a flat id that is in no row of flats
UnknownFlat == "Z-999"

\* const towers = ['A', 'B', 'C', 'D']
SeedTowers == {"A", "B", "C", "D"}

\* the first day of the seeded months '2025-09-01' .. '2026-02-01', written as
\* the number YYYYMMDD: the order of the numbers is the order of the ISO texts
SeedMonths == <<20250901, 20251001, 20251101, 20251201, 20260101, 20260201>>

baseExpense == 120000

\* the expense rows of the seed when Math.floor(Math.random() * 2000) is
\* rnd[i] for month i
SeedExpensesWith(rnd) ==
    [i \in 1..Len(SeedMonths) |->
        [amount |-> baseExpense + ((i - 1) * 5000) + rnd[i], date |-> SeedMonths[i]]]

\* the seeded expenses with every random part 0
SeedExpenses == SeedExpensesWith([i \in 1..Len(SeedMonths) |-> 0])

(***************************************************************************)
(* Helpers over rows.                                                      *)
(***************************************************************************)
FlatIds(fl) == {fl[i].id : i \in 1..Len(fl)}

\* mutant: foreign keys are not enforced
FlatFkOff(fl, flat_id) == TRUE

\* FOREIGN KEY(flat_id) REFERENCES flats(id): NULL is never checked
FlatFkOk(fl, flat_id) == flat_id = Null \/ flat_id \in FlatIds(fl)

\* authenticateToken: 0 when next() is called, else the status it sends
authenticateToken(caller) ==
    IF caller = NoToken THEN 401
    ELSE IF caller = BadToken THEN 403
    ELSE 0

\* req.user, the payload login signed: the users row of the token
ReqUser(caller) == [id |-> caller, role |-> users[caller].role, flat_id |-> users[caller].flat_id]

\* mutant: the log keeps one row per user, a new row replaces the user's last
logActivityUpsert(logs, userId, action, details) ==
    IF \E i \in 1..Len(logs) : logs[i].user_id = userId
    THEN [i \in 1..Len(logs) |->
             IF logs[i].user_id = userId
             THEN [user_id |-> userId, action |-> action, details |-> details]
             ELSE logs[i]]
    ELSE Append(logs, [user_id |-> userId, action |-> action, details |-> details])

\* INSERT INTO activity_logs (user_id, action, details)
logActivity(logs, userId, action, details) ==
    Append(logs, [user_id |-> userId, action |-> action, details |-> details])

\* the exploration stops once the activity log holds MaxLog rows
LogRoom == Len(activity_logs) < MaxLog

(***************************************************************************)
(* POST /api/admin/generate-bills                                          *)
(***************************************************************************)
\* mutant: the duplicate check looks at the wrong column
checkExistingByDueDate(bs, month) == \E i \in 1..Len(bs) : SqlEq(bs[i].due_date, month)

\* SELECT id FROM bills WHERE month = ?  (truthy when a row comes back)
checkExisting(bs, month) == \E i \in 1..Len(bs) : SqlEq(bs[i].month, month)

\* mutant: the loop stops one flat early
InsertBillsSkipsLast(bs, fl, amount, month, dueDate, n) ==
    bs \o [i \in 1..(n - 1) |->
            [flat_id |-> fl[i].id, amount |-> amount, month |-> month,
             due_date |-> dueDate, status |-> "Unpaid"]]

\* the first n runs of insertBill over the flats; status takes its DEFAULT
InsertBills(bs, fl, amount, month, dueDate, n) ==
    bs \o [i \in 1..n |->
            [flat_id |-> fl[i].id, amount |-> amount, month |-> month,
             due_date |-> dueDate, status |-> "Unpaid"]]

\* mutant: the inserts run outside a transaction, so a fault keeps the rows
\* written before it
transactionNoRollback(bs, fl, amount, month, dueDate, failAt) ==
    IF failAt = 0
    THEN [ok |-> TRUE,
          bills |-> bs \o [i \in 1..Len(fl) |->
                            [flat_id |-> fl[i].id, amount |-> amount, month |-> month,
                             due_date |-> dueDate, status |-> "Unpaid"]]]
    ELSE [ok |-> FALSE,
          bills |-> bs \o [i \in 1..(failAt - 1) |->
                            [flat_id |-> fl[i].id, amount |-> amount, month |-> month,
                             due_date |-> dueDate, status |-> "Unpaid"]]]

\* db.transaction(...)(flats): failAt = 0 runs every insert and commits; failAt = k
\* is the k-th insert throwing (a storage fault), which rolls the batch back
transaction(bs, fl, amount, month, dueDate, failAt) ==
    IF failAt = 0
    THEN [ok |-> TRUE, bills |-> InsertBills(bs, fl, amount, month, dueDate, Len(fl))]
    ELSE [ok |-> FALSE, bills |-> bs]

\* lines 595-606: what the handler does once checkExisting is known
GenerateAfterCheck(req, found) ==
    IF found
    THEN [status |-> 400, bills |-> bills, logs |-> activity_logs]
    ELSE LET t == transaction(bills, flats, req.amount, req.month, req.dueDate, req.failAt) IN
         IF ~t.ok THEN [status |-> 500, bills |-> t.bills, logs |-> activity_logs]
         ELSE [status |-> 200, bills |-> t.bills,
               logs |-> logActivity(activity_logs, req.caller, "GENERATE_BILLS", <<req.month>>)]

\* mutant: the role test is missing, any valid token passes
AdminGateTokenOnly(caller) == authenticateToken(caller)

\* 0 when the handler body runs, else the status the guards send
AdminGate(caller) ==
    LET auth == authenticateToken(caller) IN
    IF auth # 0 THEN auth
    ELSE IF ReqUser(caller).role # "admin" THEN 403
    ELSE 0

GenerateHandler(req) ==
    IF AdminGate(req.caller) # 0
    THEN [status |-> AdminGate(req.caller), bills |-> bills, logs |-> activity_logs]
    ELSE GenerateAfterCheck(req, checkExisting(bills, req.month))

\* requests tried: the admin (users.id 1) with every label and fault, and one
\* request each without a token, with a bad token and from a resident (id 3)
GenerateRequests ==
    [op : {"generate"}, caller : {1}, month : {CurrentMonth, "April 2026", Null},
     amount : {SeedAmount}, dueDate : {"2026-04-10"}, failAt : 0..Len(flats)]
    \cup
    [op : {"generate"}, caller : {NoToken, BadToken, 3}, month : {"April 2026"},
     amount : {SeedAmount}, dueDate : {"2026-04-10"}, failAt : {0}]

GenerateBills ==
    \E req \in GenerateRequests :
        LET r == GenerateHandler(req) IN
        /\ LogRoom
        /\ bills' = r.bills
        /\ activity_logs' = r.logs
        /\ last' = [req |-> req, status |-> r.status]
        /\ UNCHANGED <<users, flats, bookings, slots, running, rest>>

(***************************************************************************)
(* POST /api/admin/mark-paid                                               *)
(***************************************************************************)
\* UPDATE flats SET maintenance_status = 'Paid' WHERE id = ?
UpdateFlatPaid(fl, flatId) ==
    [i \in 1..Len(fl) |->
        IF SqlEq(fl[i].id, flatId) THEN [fl[i] EXCEPT !.maintenance_status = "Paid"] ELSE fl[i]]

\* mutant: the UPDATE flips the status instead of setting it
UpdateBillPaidToggle(bs, billId) ==
    [i \in 1..Len(bs) |->
        IF i = billId
        THEN [bs[i] EXCEPT !.status = IF bs[i].status = "Paid" THEN "Unpaid" ELSE "Paid"]
        ELSE bs[i]]

\* UPDATE bills SET status = 'Paid' WHERE id = ?
UpdateBillPaid(bs, billId) ==
    [i \in 1..Len(bs) |->
        IF i = billId THEN [bs[i] EXCEPT !.status = "Paid"] ELSE bs[i]]

\* mutant: the handler verifies that the bill belongs to the flat first
MarkPaidHandlerChecked(req) ==
    IF AdminGate(req.caller) # 0
    THEN [status |-> AdminGate(req.caller), flats |-> flats, bills |-> bills,
          logs |-> activity_logs]
    ELSE IF req.billId \in 1..Len(bills) /\ bills[req.billId].flat_id # req.flatId
    THEN [status |-> 400, flats |-> flats, bills |-> bills, logs |-> activity_logs]
    ELSE [status |-> 200,
          flats |-> [i \in 1..Len(flats) |->
                        IF SqlEq(flats[i].id, req.flatId)
                        THEN [flats[i] EXCEPT !.maintenance_status = "Paid"] ELSE flats[i]],
          bills |-> [i \in 1..Len(bills) |->
                        IF i = req.billId THEN [bills[i] EXCEPT !.status = "Paid"] ELSE bills[i]],
          logs |-> logActivity(activity_logs, req.caller, "MARK_PAID",
                               <<ToString(req.billId), req.flatId>>)]

\* mutant: every bill of the flat is marked, as UPDATE ... WHERE flat_id = ? would
MarkPaidHandlerByFlat(req) ==
    IF AdminGate(req.caller) # 0
    THEN [status |-> AdminGate(req.caller), flats |-> flats, bills |-> bills,
          logs |-> activity_logs]
    ELSE [status |-> 200,
          flats |-> UpdateFlatPaid(flats, req.flatId),
          bills |-> [i \in 1..Len(bills) |->
                        IF SqlEq(bills[i].flat_id, req.flatId)
                        THEN [bills[i] EXCEPT !.status = "Paid"] ELSE bills[i]],
          logs |-> logActivity(activity_logs, req.caller, "MARK_PAID",
                               <<ToString(req.billId), req.flatId>>)]

MarkPaidHandler(req) ==
    IF AdminGate(req.caller) # 0
    THEN [status |-> AdminGate(req.caller), flats |-> flats, bills |-> bills,
          logs |-> activity_logs]
    ELSE [status |-> 200,
          flats |-> UpdateFlatPaid(flats, req.flatId),
          bills |-> UpdateBillPaid(bills, req.billId),
          logs |-> logActivity(activity_logs, req.caller, "MARK_PAID",
                               <<ToString(req.billId), req.flatId>>)]

\* bill ids tried: the seeded bill of A-103, the first and second bill of the
\* first generated batch, and an id one past the last row
MarkPaidBillIds == {2, NumFlats + 1, NumFlats + 2, Len(bills) + 1}

MarkPaidRequests ==
    [op : {"markPaid"}, caller : {1},
     flatId : {"A-101", "A-103", UnknownFlat}, billId : MarkPaidBillIds]
    \cup
    [op : {"markPaid"}, caller : {NoToken, BadToken, 3}, flatId : {"A-103"}, billId : {2}]

MarkPaid ==
    \E req \in MarkPaidRequests :
        LET r == MarkPaidHandler(req) IN
        /\ LogRoom
        /\ flats' = r.flats
        /\ bills' = r.bills
        /\ activity_logs' = r.logs
        /\ last' = [req |-> req, status |-> r.status]
        /\ UNCHANGED <<users, bookings, slots, running, rest>>

(***************************************************************************)
(* POST /api/admin/alerts and POST /api/admin/events                       *)
(***************************************************************************)
CreateAlertHandler(req) ==
    IF AdminGate(req.caller) # 0
    THEN [status |-> AdminGate(req.caller), alerts |-> alerts, logs |-> activity_logs]
    ELSE [status |-> 200,
          alerts |-> Append(alerts, [tower |-> req.tower, title |-> req.title,
                                     message |-> req.message, severity |-> req.severity]),
          logs |-> logActivity(activity_logs, req.caller, "CREATE_ALERT", <<req.title>>)]

\* requests tried: one alert, sent by the admin (1), by the guard (2), by a
\* resident (3), without a token and with a bad token
CreateAlertRequests ==
    [op : {"createAlert"}, caller : {1, 2, 3, NoToken, BadToken},
     tower : {"All"}, title : {"Water cut"}, message : {"10am-12pm"}, severity : {"High"}]

CreateAlert ==
    \E req \in CreateAlertRequests :
        LET r == CreateAlertHandler(req) IN
        /\ LogRoom
        /\ alerts' = r.alerts
        /\ activity_logs' = r.logs
        /\ last' = [req |-> req, status |-> r.status]
        /\ UNCHANGED <<users, flats, bills, bookings, slots, running,
                       events, complaints, visitors, now, fixed>>

CreateEventHandler(req) ==
    IF AdminGate(req.caller) # 0
    THEN [status |-> AdminGate(req.caller), events |-> events, logs |-> activity_logs]
    ELSE [status |-> 200,
          events |-> Append(events, [title |-> req.title, description |-> req.description,
                                     date |-> req.date]),
          logs |-> logActivity(activity_logs, req.caller, "CREATE_EVENT", <<req.title>>)]

CreateEventRequests ==
    [op : {"createEvent"}, caller : {1, 2, 3, NoToken, BadToken},
     title : {"Holi"}, description : {"Clubhouse lawn"}, date : {"2026-03-14"}]

CreateEvent ==
    \E req \in CreateEventRequests :
        LET r == CreateEventHandler(req) IN
        /\ LogRoom
        /\ events' = r.events
        /\ activity_logs' = r.logs
        /\ last' = [req |-> req, status |-> r.status]
        /\ UNCHANGED <<users, flats, bills, bookings, slots, running,
                       alerts, complaints, visitors, now, fixed>>

(***************************************************************************)
(* The visitor ledger: /api/security/visitors, visitor-entry, visitor-exit *)
(***************************************************************************)
\* exit_time of a visitor who has not left (SQL NULL in a DATETIME column);
\* CURRENT_TIMESTAMP is at least 1
NoTime == 0

\* INSERT INTO visitors (name, tower, flat_id): entry_time and status take
\* their column defaults, exit_time stays NULL
NewVisitor(req, t) ==
    [name |-> req.name, tower |-> req.tower, flat_id |-> req.flatId,
     entry_time |-> t, exit_time |-> NoTime, status |-> "In"]

VisitorEntryHandler(req) ==
    IF authenticateToken(req.caller) # 0
    THEN [status |-> authenticateToken(req.caller), visitors |-> visitors,
          logs |-> activity_logs]
    ELSE IF ~FlatFkOk(flats, req.flatId)
    THEN [status |-> 500, visitors |-> visitors, logs |-> activity_logs]
    ELSE [status |-> 200,
          visitors |-> Append(visitors, NewVisitor(req, now)),
          logs |-> logActivity(activity_logs, req.caller, "VISITOR_ENTRY",
                               <<req.name, req.flatId>>)]

\* requests tried: the guard (2) for a flat, for an unknown flat and with no
\* flatId; a resident (3), no token and a bad token for a flat
VisitorEntryRequests ==
    [op : {"visitorEntry"}, caller : {2}, name : {"Ravi"}, tower : {"A"},
     flatId : {"A-101", UnknownFlat, Null}]
    \cup
    [op : {"visitorEntry"}, caller : {3, NoToken, BadToken}, name : {"Ravi"}, tower : {"A"},
     flatId : {"A-101"}]

VisitorEntry ==
    \E req \in VisitorEntryRequests :
        LET r == VisitorEntryHandler(req) IN
        /\ LogRoom
        /\ visitors' = r.visitors
        /\ activity_logs' = r.logs
        /\ last' = [req |-> req, status |-> r.status]
        /\ UNCHANGED <<users, flats, bills, bookings, slots, running,
                       alerts, events, complaints, now, fixed>>

\* mutant: the UPDATE sets exit_time and leaves status alone
UpdateVisitorExitTimeOnly(vs, id, t) ==
    [i \in 1..Len(vs) |-> IF i = id THEN [vs[i] EXCEPT !.exit_time = t] ELSE vs[i]]

\* mutant: the UPDATE checks a visitor back in when it is already Out
UpdateVisitorExitToggle(vs, id, t) ==
    [i \in 1..Len(vs) |->
        IF i # id THEN vs[i]
        ELSE IF vs[i].status = "Out"
        THEN [vs[i] EXCEPT !.exit_time = NoTime, !.status = "In"]
        ELSE [vs[i] EXCEPT !.exit_time = t, !.status = "Out"]]

\* UPDATE visitors SET exit_time = CURRENT_TIMESTAMP, status = 'Out' WHERE id = ?
UpdateVisitorExit(vs, id, t) ==
    [i \in 1..Len(vs) |->
        IF i = id THEN [vs[i] EXCEPT !.exit_time = t, !.status = "Out"] ELSE vs[i]]

VisitorExitHandler(req) ==
    IF authenticateToken(req.caller) # 0
    THEN [status |-> authenticateToken(req.caller), visitors |-> visitors,
          logs |-> activity_logs]
    ELSE [status |-> 200,
          visitors |-> UpdateVisitorExit(visitors, req.id, now),
          logs |-> logActivity(activity_logs, req.caller, "VISITOR_EXIT",
                               <<ToString(req.id)>>)]

\* requests tried: the guard (2) for the first two ids and for an id one past
\* the last row; no token for the first id
VisitorExitRequests ==
    [op : {"visitorExit"}, caller : {2}, id : {1, 2, Len(visitors) + 1}]
    \cup
    [op : {"visitorExit"}, caller : {NoToken}, id : {1}]

VisitorExit ==
    \E req \in VisitorExitRequests :
        LET r == VisitorExitHandler(req) IN
        /\ LogRoom
        /\ visitors' = r.visitors
        /\ activity_logs' = r.logs
        /\ last' = [req |-> req, status |-> r.status]
        /\ UNCHANGED <<users, flats, bills, bookings, slots, running,
                       alerts, events, complaints, now, fixed>>

\* a row as SELECT * returns it: the columns with the row id
VisitorRow(vs, i) ==
    [id |-> i, name |-> vs[i].name, tower |-> vs[i].tower, flat_id |-> vs[i].flat_id,
     entry_time |-> vs[i].entry_time, exit_time |-> vs[i].exit_time,
     status |-> vs[i].status]

\* the orders ORDER BY entry_time DESC allows for the rows ids: rows of equal
\* entry_time may come in any order
OrderByEntryTimeDesc(vs, ids) ==
    {p \in [1..Cardinality(ids) -> ids] :
        /\ \A i, j \in 1..Cardinality(ids) : i # j => p[i] # p[j]
        /\ \A i, j \in 1..Cardinality(ids) : i < j => vs[p[i]].entry_time >= vs[p[j]].entry_time}

\* mutant: SELECT * FROM visitors WHERE status = 'In' ORDER BY entry_time DESC
SelectVisitorsIn(vs) ==
    {[k \in DOMAIN p |-> VisitorRow(vs, p[k])] :
        p \in OrderByEntryTimeDesc(vs, {i \in 1..Len(vs) : vs[i].status = "In"})}

\* SELECT * FROM visitors ORDER BY entry_time DESC: the result sets possible
SelectVisitors(vs) ==
    {[k \in DOMAIN p |-> VisitorRow(vs, p[k])] : p \in OrderByEntryTimeDesc(vs, 1..Len(vs))}

\* requests tried: the guard (2) and no token
ListVisitorsRequests == [op : {"listVisitors"}, caller : {2, NoToken}]

ListVisitors ==
    \E req \in ListVisitorsRequests :
        /\ IF authenticateToken(req.caller) # 0
           THEN last' = [req |-> req, status |-> authenticateToken(req.caller)]
           ELSE \E body \in SelectVisitors(visitors) :
                    last' = [req |-> req, status |-> 200, body |-> body]
        /\ UNCHANGED <<tables, slots, running, now, boot>>

\* a second of wall-clock time passes; no request is handled in this step
Tick ==
    /\ now < MaxTime
    /\ now' = now + 1
    /\ last' = [req |-> [op |-> "tick"], status |-> 0]
    /\ UNCHANGED <<tables, slots, running, boot>>

(***************************************************************************)
(* GET /api/admin/stats                                                    *)
(***************************************************************************)
\* the NULL that SUM yields over no rows (amounts are never negative)
SqlNullNum == -1

\* SELECT count(*) FROM flats WHERE maintenance_status = st
CountFlats(fl, st) == Cardinality({i \in 1..Len(fl) : fl[i].maintenance_status = st})

\* SELECT count(*) FROM complaints WHERE status != 'Resolved'
CountComplaintsOpen(cs) == Cardinality({i \in 1..Len(cs) : cs[i].status # "Resolved"})

\* SELECT count(*) FROM visitors WHERE status = 'In'
CountVisitorsIn(vs) == Cardinality({i \in 1..Len(vs) : vs[i].status = "In"})

\* the amounts of the first n bills whose status is st, added up
RECURSIVE AddAmounts(_, _, _)
AddAmounts(bs, st, n) ==
    IF n = 0 THEN 0
    ELSE AddAmounts(bs, st, n - 1) + (IF bs[n].status = st THEN bs[n].amount ELSE 0)

\* SELECT SUM(amount) FROM bills WHERE status = st: NULL when no row matches
SumAmount(bs, st) ==
    IF \A i \in 1..Len(bs) : bs[i].status # st
    THEN SqlNullNum
    ELSE AddAmounts(bs, st, Len(bs))

\* mutant: the total is sent as the query returned it
OrZeroMissing(x) == x

\* x || 0
OrZero(x) == IF x = SqlNullNum \/ x = 0 THEN 0 ELSE x

computeStats(fl, bs, cs, vs) ==
    [totalFlats |-> Len(fl),
     paidFlats |-> CountFlats(fl, "Paid"),
     pendingComplaints |-> CountComplaintsOpen(cs),
     activeVisitors |-> CountVisitorsIn(vs),
     totalCollected |-> OrZero(SumAmount(bs, "Paid")),
     totalPending |-> OrZero(SumAmount(bs, "Unpaid"))]

\* requests tried: the admin (1), a resident (3) and no token
StatsRequests == [op : {"stats"}, caller : {1, 3, NoToken}]

\* mutant: the handler records the call in the activity log
StatsHandlerLogged(req) ==
    IF AdminGate(req.caller) # 0
    THEN [status |-> AdminGate(req.caller), body |-> Null, logs |-> activity_logs]
    ELSE [status |-> 200, body |-> computeStats(flats, bills, complaints, visitors),
          logs |-> logActivity(activity_logs, req.caller, "VIEW_STATS", << >>)]

\* the handler runs SELECT statements only: the log it leaves is the log it found
StatsHandler(req) ==
    IF AdminGate(req.caller) # 0
    THEN [status |-> AdminGate(req.caller), body |-> Null, logs |-> activity_logs]
    ELSE [status |-> 200, body |-> computeStats(flats, bills, complaints, visitors),
          logs |-> activity_logs]

Stats ==
    \E req \in StatsRequests :
        LET r == StatsHandler(req) IN
        /\ last' = IF r.status = 200
                   THEN [req |-> req, status |-> 200, body |-> r.body]
                   ELSE [req |-> req, status |-> r.status]
        /\ activity_logs' = r.logs
        /\ UNCHANGED <<users, flats, bills, bookings, alerts, events, complaints, visitors,
                       slots, running, now, fixed>>

(***************************************************************************)
(* GET /api/admin/flats                                                    *)
(***************************************************************************)
\* requests tried: the admin (1), the guard (2) and no token
ListFlatsRequests == [op : {"listFlats"}, caller : {1, 2, NoToken}]

\* SELECT * FROM flats
ListFlats ==
    \E req \in ListFlatsRequests :
        /\ IF AdminGate(req.caller) # 0
           THEN last' = [req |-> req, status |-> AdminGate(req.caller)]
           ELSE last' = [req |-> req, status |-> 200, body |-> flats]
        /\ UNCHANGED <<tables, slots, running, now, boot>>

(***************************************************************************)
(* GET /api/admin/ai-prediction                                            *)
(*                                                                         *)
(* growth is a JavaScript double.  The amounts are integers below 2^53, so *)
(* recent - previous is exact; for previous > 0 the quotient and its       *)
(* product with 100 are each rounded once, and for integer amounts of this *)
(* size the result is on the same side of 5 and of 10 as the exact         *)
(* fraction (it is exactly 5 or 10 when the fraction is).  A finite growth *)
(* is therefore kept as the fraction num / den with den > 0; a division by *)
(* zero yields Infinity, -Infinity or NaN as IEEE 754 does.                *)
(***************************************************************************)
\* SELECT amount FROM expenses ORDER BY date DESC LIMIT 6: the row numbers the
\* result may hold at positions 0 and 1 (rows of equal date come in any
\* order); a table of fewer than two rows has no such pair
OrderByDateDesc(es) ==
    IF Len(es) < 2 THEN {<<0, 0>>}
    ELSE {p \in (1..Len(es)) \X (1..Len(es)) :
             /\ p[1] # p[2]
             /\ es[p[1]].date >= es[p[2]].date
             /\ \A k \in 1..Len(es) : k \notin {p[1], p[2]} => es[p[2]].date >= es[k].date}

\* mutant: the short answer is given for fewer than three rows
InsufficientBelow3(es) == Len(es) < 3

\* expenses.length < 2
Insufficient(es) == Len(es) < 2

\* ((recent - previous) / previous) * 100
Growth(recent, previous) ==
    IF previous = 0
    THEN [kind |-> IF recent > 0 THEN "Infinity" ELSE IF recent < 0 THEN "-Infinity" ELSE "NaN",
          num |-> 0, den |-> 1]
    ELSE IF previous > 0
    THEN [kind |-> "finite", num |-> (recent - previous) * 100, den |-> previous]
    ELSE [kind |-> "finite", num |-> (previous - recent) * 100, den |-> 0 - previous]

\* mutant: growth >= k
GrowthAtLeast(g, k) ==
    \/ g.kind = "Infinity"
    \/ g.kind = "finite" /\ g.num >= k * g.den

\* growth > k: false for NaN
GrowthAbove(g, k) ==
    \/ g.kind = "Infinity"
    \/ g.kind = "finite" /\ g.num > k * g.den

\* growth.toFixed(2): the hundredths nearest to the fraction (the stores tried
\* hold no fraction that lies halfway between two hundredths), or the name of
\* the value that is not finite
toFixed2(g) ==
    IF g.kind # "finite" THEN [kind |-> g.kind, hundredths |-> 0]
    ELSE [kind |-> "finite",
          hundredths |-> ((g.num \div g.den) * 100)
                         + (((2 * (g.num % g.den) * 100) + g.den) \div (2 * g.den))]

SuggestMaintain == "Maintain current maintenance fee."
SuggestIncrease200 == "Expenses rose >10%. Suggest increasing maintenance by 200."
SuggestIncrease100 == "Expenses rising steadily. Consider a 100 increase next quarter."
SuggestInsufficient == "Insufficient data"

\* 85 + Math.random() * 10, by its whole part: the least and the greatest
ConfidenceLevels == {85, 94}

\* the answers of the handler body for the rows in the order p
predictBudget(es, p) ==
    IF Insufficient(es)
    THEN {[suggestion |-> SuggestInsufficient,
           growth |-> [kind |-> "finite", hundredths |-> 0]]}
    ELSE LET recent == es[p[1]].amount
             previous == es[p[2]].amount
             growth == Growth(recent, previous)
             suggestion == IF GrowthAbove(growth, 10) THEN SuggestIncrease200
                           ELSE IF GrowthAbove(growth, 5) THEN SuggestIncrease100
                           ELSE SuggestMaintain
         IN {[recentExpense |-> recent, previousExpense |-> previous,
              growth |-> toFixed2(growth), suggestion |-> suggestion,
              confidence |-> c] : c \in ConfidenceLevels}

\* requests tried: the admin (1), a resident (3) and no token
PredictRequests == [op : {"predict"}, caller : {1, 3, NoToken}]

Predict ==
    \E req \in PredictRequests :
        /\ IF AdminGate(req.caller) # 0
           THEN last' = [req |-> req, status |-> AdminGate(req.caller)]
           ELSE \E p \in OrderByDateDesc(expenses) :
                    \E body \in predictBudget(expenses, p) :
                        last' = [req |-> req, status |-> 200, body |-> body]
        /\ UNCHANGED <<tables, slots, running, now, boot>>

(***************************************************************************)
(* POST /api/register                                                      *)
(***************************************************************************)
\* users.username is UNIQUE (NULLs never collide)
UsernameTaken(us, username) == \E i \in 1..Len(us) : SqlEq(us[i].username, username)

\* mutant: the supplied role is ignored
RoleAlwaysResident(role) == "resident"

\* role || 'resident'
RoleOrDefault(role) == IF role = Null THEN "resident" ELSE role

RegisterHandler(req) ==
    IF req.password = Null
    THEN \* bcrypt.hash(undefined, salt) throws: "Registration failed"
         [status |-> 500, users |-> users, logs |-> activity_logs]
    ELSE IF UsernameTaken(users, req.username)
    THEN [status |-> 400, users |-> users, logs |-> activity_logs]
    ELSE [status |-> 200,
          users |-> Append(users, [username |-> req.username, role |-> RoleOrDefault(req.role),
                                   flat_id |-> req.flatId]),
          logs |-> logActivity(activity_logs, Len(users) + 1, "REGISTER", << >>)]

RegisterRequests ==
    [op : {"register"}, username : {"admin", "newuser"}, password : {"secret"},
     role : {Null, "admin"}, flatId : {Null, UnknownFlat}]
    \cup
    [op : {"register"}, username : {"admin", "newuser"}, password : {Null},
     role : {Null}, flatId : {Null}]

Register ==
    \E req \in RegisterRequests :
        LET r == RegisterHandler(req) IN
        /\ LogRoom
        /\ users' = r.users
        /\ activity_logs' = r.logs
        /\ last' = [req |-> req, status |-> r.status]
        /\ UNCHANGED <<flats, bills, bookings, slots, running, rest>>

(***************************************************************************)
(* POST /api/resident/book                                                 *)
(***************************************************************************)
\* mutant: date and timeSlot are bound in the wrong order
existingArgsSwapped(bk, amenity, date, timeSlot) ==
    \E i \in 1..Len(bk) :
        /\ SqlEq(bk[i].amenity, amenity)
        /\ SqlEq(bk[i].date, timeSlot)
        /\ SqlEq(bk[i].time_slot, date)

\* mutant: the lookup leaves the time slot out
existingIgnoresSlot(bk, amenity, date, timeSlot) ==
    \E i \in 1..Len(bk) :
        /\ SqlEq(bk[i].amenity, amenity)
        /\ SqlEq(bk[i].date, date)

\* SELECT * FROM bookings WHERE amenity = ? AND date = ? AND time_slot = ?
existing(bk, amenity, date, timeSlot) ==
    \E i \in 1..Len(bk) :
        /\ SqlEq(bk[i].amenity, amenity)
        /\ SqlEq(bk[i].date, date)
        /\ SqlEq(bk[i].time_slot, timeSlot)

\* the row the INSERT adds; status takes its DEFAULT 'Confirmed'
NewBooking(user, amenity, date, timeSlot) ==
    [flat_id |-> user.flat_id, user_id |-> user.id, amenity |-> amenity, date |-> date,
     time_slot |-> timeSlot, status |-> "Confirmed"]

\* mutant: the 400 branch lacks its return, so the INSERT still runs
BookAfterLookupNoReturn(req, found) ==
    IF ~FlatFkOk(flats, ReqUser(req.caller).flat_id)
    THEN [status |-> 500, bookings |-> bookings, logs |-> activity_logs]
    ELSE [status |-> IF found THEN 400 ELSE 200,
          bookings |-> Append(bookings,
                              NewBooking(ReqUser(req.caller), req.amenity, req.date, req.timeSlot)),
          logs |-> logActivity(activity_logs, req.caller, "BOOK_AMENITY",
                               <<req.amenity, req.date>>)]

\* lines 668-674: what the handler does once existing is known
BookAfterLookup(req, found) ==
    IF found
    THEN [status |-> 400, bookings |-> bookings, logs |-> activity_logs]
    ELSE IF ~FlatFkOk(flats, ReqUser(req.caller).flat_id)
    THEN \* the INSERT throws SQLITE_CONSTRAINT_FOREIGNKEY; Express answers 500
         [status |-> 500, bookings |-> bookings, logs |-> activity_logs]
    ELSE [status |-> 200,
          bookings |-> Append(bookings,
                              NewBooking(ReqUser(req.caller), req.amenity, req.date, req.timeSlot)),
          logs |-> logActivity(activity_logs, req.caller, "BOOK_AMENITY",
                               <<req.amenity, req.date>>)]

\* mutant: a caller that holds the triple itself moves its booking: the old
\* row is deleted and a new one inserted
BookHandlerRebook(req) ==
    LET auth == authenticateToken(req.caller)
        own == {i \in 1..Len(bookings) :
                   /\ SqlEq(bookings[i].amenity, req.amenity)
                   /\ SqlEq(bookings[i].date, req.date)
                   /\ SqlEq(bookings[i].time_slot, req.timeSlot)
                   /\ bookings[i].user_id = req.caller}
        others == SelectSeq(bookings, LAMBDA b : b.user_id # req.caller
                                                \/ ~SqlEq(b.amenity, req.amenity)
                                                \/ ~SqlEq(b.date, req.date)
                                                \/ ~SqlEq(b.time_slot, req.timeSlot))
    IN IF auth # 0 THEN [status |-> auth, bookings |-> bookings, logs |-> activity_logs]
       ELSE IF own # {}
       THEN [status |-> 200,
             bookings |-> Append(others, NewBooking(ReqUser(req.caller), req.amenity,
                                                    req.date, req.timeSlot)),
             logs |-> logActivity(activity_logs, req.caller, "BOOK_AMENITY",
                                  <<req.amenity, req.date>>)]
       ELSE BookAfterLookup(req, existing(bookings, req.amenity, req.date, req.timeSlot))

BookHandler(req) ==
    LET auth == authenticateToken(req.caller) IN
    IF auth # 0 THEN [status |-> auth, bookings |-> bookings, logs |-> activity_logs]
    ELSE BookAfterLookup(req, existing(bookings, req.amenity, req.date, req.timeSlot))

SlotMorning == "06:00 AM - 08:00 AM"
SlotLater == "08:00 AM - 10:00 AM"

\* callers tried: the two seeded residents (users.id 3 and 4) and a user that
\* registered (id 5), once that row exists; one request each without a valid token
BookRequests ==
    [op : {"book"}, caller : {c \in {3, 4, 5} : c <= Len(users)}, amenity : {"Gym", Null},
     date : {"2026-03-20"}, timeSlot : {SlotMorning, SlotLater}]
    \cup
    [op : {"book"}, caller : {NoToken, BadToken}, amenity : {"Gym"},
     date : {"2026-03-20"}, timeSlot : {SlotMorning}]

Book ==
    \E req \in BookRequests :
        LET r == BookHandler(req) IN
        /\ LogRoom
        /\ bookings' = r.bookings
        /\ activity_logs' = r.logs
        /\ last' = [req |-> req, status |-> r.status]
        /\ UNCHANGED <<users, flats, bills, slots, running, rest>>

(***************************************************************************)
(* The store after seedData, no request handled yet.                       *)
(***************************************************************************)
NoRequest == [op |-> "none"]

\* the requests in flight under concurrent admission (SpecConc)
Slots == 1..MaxInFlight

FreeSlot == [req |-> NoRequest, pc |-> "free", found |-> FALSE, concurrent |-> FALSE, status |-> 0]

Init ==
    /\ users = SeedUsers
    /\ flats = flatData
    /\ bills = SeedBills
    /\ bookings = << >>
    /\ activity_logs = << >>
    /\ last = [req |-> NoRequest, status |-> 0]
    /\ slots = [s \in 1..MaxInFlight |-> FreeSlot]
    /\ running = 0
    /\ alerts = << >>
    /\ events = << >>
    /\ complaints = << >>
    /\ visitors = << >>
    /\ now = 1
    /\ expenses = SeedExpenses
    /\ towers = SeedTowers
    /\ seedPc = "done"
    /\ listening = TRUE

Next ==
    \/ GenerateBills
    \/ MarkPaid

Spec == Init /\ [][Next]_vars

\* registration and amenity booking
NextBooking ==
    \/ Register
    \/ Book

SpecBooking == Init /\ [][NextBooking]_vars

\* the four routes that are open to the admin only
NextAdmin ==
    \/ GenerateBills
    \/ MarkPaid
    \/ CreateAlert
    \/ CreateEvent

SpecAdmin == Init /\ [][NextAdmin]_vars

\* the visitor ledger under a wall clock that never runs backwards
NextVisitors ==
    \/ VisitorEntry
    \/ VisitorExit
    \/ ListVisitors
    \/ Tick

SpecVisitors == Init /\ [][NextVisitors]_vars

\* the stores the stats route is tried on: up to MaxRows flats, complaints and
\* visitors and up to MaxBills bills, the empty store included; a bill belongs
\* to one of the flats, complaints and visitors name no flat
StatsFlats ==
    UNION {{[i \in 1..n |-> [id |-> FlatRows[i].id, maintenance_status |-> st[i]]] :
               st \in [1..n -> {"Paid", "Unpaid"}]} : n \in 0..MaxRows}

StatsBills(fl) ==
    UNION {[1..n -> [flat_id : FlatIds(fl), amount : {SeedAmount, 2000},
                     month : {CurrentMonth}, due_date : {SeedDueDate},
                     status : {"Paid", "Unpaid"}]] : n \in 0..MaxBills}

StatsComplaints ==
    UNION {[1..n -> [flat_id : {Null}, user_id : {1}, title : {"Leak"},
                     description : {"Tap"}, category : {"Water"},
                     status : {"Pending", "In Progress", "Resolved"}]] : n \in 0..MaxRows}

StatsVisitors ==
    UNION {[1..n -> {[name |-> "Ravi", tower |-> "A", flat_id |-> Null, entry_time |-> 1,
                      exit_time |-> NoTime, status |-> "In"],
                     [name |-> "Ravi", tower |-> "A", flat_id |-> Null, entry_time |-> 1,
                      exit_time |-> 1, status |-> "Out"]}] : n \in 0..MaxRows}

InitStats ==
    /\ users = SeedUsers
    /\ flats \in StatsFlats
    /\ bills \in StatsBills(flats)
    /\ complaints \in StatsComplaints
    /\ visitors \in StatsVisitors
    /\ bookings = << >>
    /\ activity_logs = << >>
    /\ alerts = << >>
    /\ events = << >>
    /\ last = [req |-> NoRequest, status |-> 0]
    /\ slots = [s \in 1..MaxInFlight |-> FreeSlot]
    /\ running = 0
    /\ now = 1
    /\ expenses = SeedExpenses
    /\ towers = SeedTowers
    /\ seedPc = "done"
    /\ listening = TRUE

NextStats == Stats

SpecStats == InitStats /\ [][NextStats]_vars

\* the expense tables the prediction is tried on: up to MaxExpenses rows of
\* a few amounts on two dates, the empty table included, and the seeded table
\* with the least and the greatest random part in its last two months
PredictAmounts == {0, 100000, 105000, 110000, 112000}

PredictDates == {SeedMonths[5], SeedMonths[6]}

PredictExpenses ==
    UNION {[1..n -> [amount : PredictAmounts, date : PredictDates]] : n \in 0..MaxExpenses}
    \cup
    {SeedExpensesWith([i \in 1..Len(SeedMonths) |->
                          IF i = 5 THEN r5 ELSE IF i = 6 THEN r6 ELSE 0]) :
         r5 \in {0, 1999}, r6 \in {0, 1999}}

InitPredict ==
    /\ users = SeedUsers
    /\ flats = flatData
    /\ bills = SeedBills
    /\ bookings = << >>
    /\ activity_logs = << >>
    /\ last = [req |-> NoRequest, status |-> 0]
    /\ slots = [s \in 1..MaxInFlight |-> FreeSlot]
    /\ running = 0
    /\ alerts = << >>
    /\ events = << >>
    /\ complaints = << >>
    /\ visitors = << >>
    /\ now = 1
    /\ expenses \in PredictExpenses
    /\ towers = SeedTowers
    /\ seedPc = "done"
    /\ listening = TRUE

NextPredict == Predict

SpecPredict == InitPredict /\ [][NextPredict]_vars

(***************************************************************************)
(* Start-up: seedData() (line 478) is called and not awaited, then         *)
(* startServer() (line 729) registers the routes and reaches app.listen.   *)
(* seedData runs up to its first await (line 448) in the call itself; the  *)
(* rest runs in a later turn of the event loop, once bcrypt has hashed the *)
(* three passwords.  app.listen runs in the turn of the call (production)  *)
(* or after createViteServer has resolved, so requests can be served       *)
(* before the rest of seedData has run.                                    *)
(***************************************************************************)
\* lines 397-444: the towers count is read; on an empty towers table the
\* towers and the flats are inserted and the function waits for bcrypt
SeedStart ==
    /\ seedPc = "start"
    /\ IF towers = {}
       THEN /\ towers' = SeedTowers
            /\ flats' = flats \o flatData
            /\ seedPc' = "hashing"
       ELSE /\ UNCHANGED <<towers, flats>>
            /\ seedPc' = "done"
    /\ last' = [req |-> [op |-> "seedData"], status |-> 0]
    /\ UNCHANGED <<users, bills, bookings, activity_logs, alerts, events, complaints,
                   visitors, expenses, slots, running, now, listening>>

\* lines 453-475: the users, the bills and the expenses are inserted; the
\* first insertUser.run throws when the username admin is taken, and the
\* promise of seedData is rejected with nothing more inserted
SeedFinish ==
    /\ seedPc = "hashing"
    /\ IF UsernameTaken(users, SeedUsers[1].username)
       THEN /\ seedPc' = "failed"
            /\ UNCHANGED <<users, bills, expenses>>
       ELSE /\ users' = users \o SeedUsers
            /\ bills' = bills \o SeedBills
            /\ expenses' = expenses \o SeedExpenses
            /\ seedPc' = "done"
    /\ last' = [req |-> [op |-> "seedData"], status |-> 0]
    /\ UNCHANGED <<flats, towers, bookings, activity_logs, alerts, events, complaints,
                   visitors, slots, running, now, listening>>

\* app.listen(PORT): from here on requests are handled
Listen ==
    /\ seedPc # "start"
    /\ ~listening
    /\ listening' = TRUE
    /\ last' = [req |-> [op |-> "listen"], status |-> 0]
    /\ UNCHANGED <<tables, slots, running, now, seedPc>>

\* a register request handled by the listening server
ServeRegister == listening /\ Register

\* the database file at start-up: a new one, or one a previous run has seeded
InitBoot ==
    /\ towers \in {{}, SeedTowers}
    /\ users = IF towers = {} THEN << >> ELSE SeedUsers
    /\ flats = IF towers = {} THEN << >> ELSE flatData
    /\ bills = IF towers = {} THEN << >> ELSE SeedBills
    /\ expenses = IF towers = {} THEN << >> ELSE SeedExpenses
    /\ bookings = << >>
    /\ activity_logs = << >>
    /\ alerts = << >>
    /\ events = << >>
    /\ complaints = << >>
    /\ visitors = << >>
    /\ last = [req |-> NoRequest, status |-> 0]
    /\ slots = [s \in 1..MaxInFlight |-> FreeSlot]
    /\ running = 0
    /\ now = 1
    /\ seedPc = "start"
    /\ listening = FALSE

NextBoot ==
    \/ SeedStart
    \/ SeedFinish
    \/ Listen
    \/ ServeRegister

SpecBoot == InitBoot /\ [][NextBoot]_vars

\* the two routes whose lookups compare request fields with stored ones
NextMissing ==
    \/ GenerateBills
    \/ Book

SpecMissing == Init /\ [][NextMissing]_vars

\* the read-only routes between visitor entries and exits
NextReads ==
    \/ VisitorEntry
    \/ VisitorExit
    \/ Stats
    \/ Predict
    \/ ListVisitors
    \/ ListFlats

SpecReads == Init /\ [][NextReads]_vars

(***************************************************************************)
(* Concurrent admission.  Several requests are in flight at once; Node runs *)
(* one callback at a time, and the handlers of book and generate-bills hold *)
(* the thread from their SELECT to their last write (no await in between).  *)
(* Here a handler takes two steps, the lookup and the rest, and `running'   *)
(* is the slot whose handler holds the thread (0: the event loop is idle).  *)
(***************************************************************************)
\* mutant: the handler awaits between its lookup and its write, so another
\* callback may start meanwhile
ThreadFreeAlways == TRUE

\* the event loop starts a callback only when no handler is running
ThreadFree == running = 0

ConcRequests ==
    [op : {"book"}, caller : {3, 4}, amenity : {"Gym"}, date : {"2026-03-20"},
     timeSlot : {SlotMorning, SlotLater}]
    \cup
    [op : {"book"}, caller : {NoToken}, amenity : {"Gym"}, date : {"2026-03-20"},
     timeSlot : {SlotMorning}]
    \cup
    [op : {"generate"}, caller : {1}, month : {CurrentMonth, "April 2026"},
     amount : {SeedAmount}, dueDate : {"2026-04-10"}, failAt : {0}]
    \cup
    [op : {"generate"}, caller : {3}, month : {"April 2026"},
     amount : {SeedAmount}, dueDate : {"2026-04-10"}, failAt : {0}]

\* a request arrives and waits for the event loop
Admit ==
    \E s \in Slots, req \in ConcRequests :
        /\ slots[s].pc = "free"
        /\ slots' = [slots EXCEPT ![s] = [FreeSlot EXCEPT !.req = req, !.pc = "admitted"]]
        /\ UNCHANGED <<tables, last, running, now, boot>>

\* another request is in flight when the handler of slot s starts
OthersWaiting(s) == \E t \in Slots \ {s} : slots[t].pc \in {"admitted", "checked"}

\* lines 482-492, 666-667: the token check, then the handler runs its SELECT
BookLookup ==
    \E s \in Slots :
        /\ slots[s].pc = "admitted"
        /\ slots[s].req.op = "book"
        /\ ThreadFree
        /\ IF authenticateToken(slots[s].req.caller) # 0
           THEN /\ slots' = [slots EXCEPT ![s].pc = "done",
                                          ![s].status = authenticateToken(slots[s].req.caller)]
                /\ last' = [req |-> slots[s].req,
                            status |-> authenticateToken(slots[s].req.caller)]
                /\ UNCHANGED running
           ELSE /\ slots' = [slots EXCEPT
                                ![s].pc = "checked",
                                ![s].concurrent = OthersWaiting(s),
                                ![s].found = existing(bookings, slots[s].req.amenity,
                                                      slots[s].req.date, slots[s].req.timeSlot)]
                /\ running' = s
                /\ UNCHANGED last
        /\ UNCHANGED <<tables, now, boot>>

\* lines 668-674: the 400, or the INSERT, the log row and the 200
BookFinish ==
    \E s \in Slots :
        /\ slots[s].pc = "checked"
        /\ slots[s].req.op = "book"
        /\ LET r == BookAfterLookup(slots[s].req, slots[s].found) IN
           /\ bookings' = r.bookings
           /\ activity_logs' = r.logs
           /\ slots' = [slots EXCEPT ![s].pc = "done", ![s].status = r.status]
           /\ last' = [req |-> slots[s].req, status |-> r.status]
        /\ running' = 0
        /\ UNCHANGED <<users, flats, bills, rest>>

\* lines 482-492, 589-592: the token and role checks, then checkExisting
GenerateCheck ==
    \E s \in Slots :
        /\ slots[s].pc = "admitted"
        /\ slots[s].req.op = "generate"
        /\ ThreadFree
        /\ IF AdminGate(slots[s].req.caller) # 0
           THEN /\ slots' = [slots EXCEPT ![s].pc = "done",
                                          ![s].status = AdminGate(slots[s].req.caller)]
                /\ last' = [req |-> slots[s].req, status |-> AdminGate(slots[s].req.caller)]
                /\ UNCHANGED running
           ELSE /\ slots' = [slots EXCEPT
                                ![s].pc = "checked",
                                ![s].concurrent = OthersWaiting(s),
                                ![s].found = checkExisting(bills, slots[s].req.month)]
                /\ running' = s
                /\ UNCHANGED last
        /\ UNCHANGED <<tables, now, boot>>

\* lines 593-606: the 400, or the batch, the log row and the 200
GenerateFinish ==
    \E s \in Slots :
        /\ slots[s].pc = "checked"
        /\ slots[s].req.op = "generate"
        /\ LET r == GenerateAfterCheck(slots[s].req, slots[s].found) IN
           /\ bills' = r.bills
           /\ activity_logs' = r.logs
           /\ slots' = [slots EXCEPT ![s].pc = "done", ![s].status = r.status]
           /\ last' = [req |-> slots[s].req, status |-> r.status]
        /\ running' = 0
        /\ UNCHANGED <<users, flats, bookings, rest>>

NextConc ==
    \/ Admit
    \/ BookLookup
    \/ BookFinish
    \/ GenerateCheck
    \/ GenerateFinish

SpecConc == Init /\ [][NextConc]_vars

(***************************************************************************)
(* Properties of the billing engine, checked under Spec.                   *)
(***************************************************************************)
\* the request was admitted by authenticateToken and carries the admin role
AdminCall(req) == req.caller >= 1 /\ users[req.caller].role = "admin"

BillsOfCycle(bs, label) == {i \in 1..Len(bs) : bs[i].month = label}

\* C1: a generate-bills call by the admin for a (non-null) cycle label that
\* some Bill already carries answers 400, writes no table, and leaves the label
\* with as many Bills as there are Flats.
C1_DuplicateCycleRejected ==
    [][ ( /\ last'.req.op = "generate"
          /\ AdminCall(last'.req)
          /\ last'.req.month # Null
          /\ BillsOfCycle(bills, last'.req.month) # {} )
        => ( /\ last'.status = 400
             /\ UNCHANGED tables
             /\ Cardinality(BillsOfCycle(bills', last'.req.month)) = Len(flats') ) ]_vars

\* the second of two calls for "April 2026" has been answered 400
C1_Witness ==
    /\ last.req.op = "generate"
    /\ last.req.month = "April 2026"
    /\ last.status = 400
    /\ Cardinality(BillsOfCycle(bills, "April 2026")) = Len(flats)
    /\ \E k \in 1..Len(activity_logs) :
          activity_logs[k].action = "GENERATE_BILLS" /\ activity_logs[k].details = <<"April 2026">>

\* C3: a generate-bills call that succeeds appends exactly one Bill per Flat,
\* Unpaid and with the request's amount, due date and label, keeps every earlier
\* Bill as it was, and appends exactly one ActivityLog row.
C3_GenerateCreatesOnePerFlat ==
    [][ ( last'.req.op = "generate" /\ last'.status = 200 )
        => LET n == Len(bills)
               m == Len(flats)
               r == last'.req
           IN /\ Len(bills') = n + m
              /\ \A i \in 1..n : bills'[i] = bills[i]
              /\ \A f \in 1..m :
                    Cardinality({i \in (n + 1)..(n + m) : bills'[i].flat_id = flats[f].id}) = 1
              /\ \A i \in (n + 1)..(n + m) :
                    /\ bills'[i].status = "Unpaid"
                    /\ bills'[i].amount = r.amount
                    /\ bills'[i].due_date = r.dueDate
                    /\ bills'[i].month = r.month
              /\ Len(activity_logs') = Len(activity_logs) + 1
              /\ SubSeq(activity_logs', 1, Len(activity_logs)) = activity_logs
              /\ activity_logs'[Len(activity_logs')].action = "GENERATE_BILLS"
              /\ activity_logs'[Len(activity_logs')].user_id = r.caller
              /\ UNCHANGED <<users, flats, bookings>> ]_vars

\* a batch for "April 2026" has just been created next to the seeded Bills
C3_Witness ==
    /\ last.req.op = "generate"
    /\ last.status = 200
    /\ last.req.month = "April 2026"
    /\ Len(bills) = 2 * Len(flats)
    /\ Len(activity_logs) = 1

\* C4: for every label some Bill carries, the Flats that have a Bill with that
\* label are all the Flats: no batch is ever left partial, also after an
\* insert of the batch has failed.
C4_BatchAtomic ==
    \A i \in 1..Len(bills) :
        {bills[j].flat_id : j \in BillsOfCycle(bills, bills[i].month)} = FlatIds(flats)

\* an insert after the first one of a batch has failed, and the label has no Bill
C4_Witness ==
    /\ last.req.op = "generate"
    /\ last.status = 500
    /\ last.req.failAt > 1
    /\ BillsOfCycle(bills, last.req.month) = {}

\* C5: no Flat has two Bills with the same (non-null) cycle label.
C5_OneBillPerFlatPerCycle ==
    \A i, j \in 1..Len(bills) :
        (i # j /\ bills[i].flat_id = bills[j].flat_id) => ~SqlEq(bills[i].month, bills[j].month)

\* after a generate, a mark-paid and a second generate for the same label
C5_Witness ==
    /\ last.req.op = "generate"
    /\ last.status = 400
    /\ last.req.month = "April 2026"
    /\ \E k \in 1..Len(activity_logs) : activity_logs[k].action = "MARK_PAID"
    /\ \E i \in 1..Len(bills) : bills[i].month = "April 2026" /\ bills[i].status = "Paid"

FlatRow(fl, id) == CHOOSE i \in 1..Len(fl) : fl[i].id = id

\* C10 as claimed: a successful mark-paid of an existing Bill and Flat sets the
\* Bill to Paid and the Flat that owns the Bill to Paid, and changes no other
\* Bill and no other Flat.
C10_Original ==
    [][ ( /\ last'.req.op = "markPaid"
          /\ last'.status = 200
          /\ last'.req.billId \in 1..Len(bills)
          /\ last'.req.flatId \in FlatIds(flats) )
        => LET b == last'.req.billId
               owner == bills[b].flat_id
           IN /\ bills'[b].status = "Paid"
              /\ flats'[FlatRow(flats, owner)].maintenance_status = "Paid"
              /\ \A i \in 1..Len(bills) : i # b => bills'[i] = bills[i]
              /\ \A f \in 1..Len(flats) : flats[f].id # owner => flats'[f] = flats[f] ]_vars

\* C10 as amended: a successful mark-paid sets the Bill whose id is billId (if
\* there is one) to Paid and the Flat whose id is flatId (if there is one) to
\* Paid, changes nothing else of any Bill or Flat, and so marks the owning Flat
\* exactly when the Bill belongs to flatId.
C10_MarkPaidSetsNamedRows ==
    [][ ( last'.req.op = "markPaid" /\ last'.status = 200 )
        => LET b == last'.req.billId
               f == last'.req.flatId
           IN /\ Len(bills') = Len(bills)
              /\ \A i \in 1..Len(bills) :
                    bills'[i] = IF i = b THEN [bills[i] EXCEPT !.status = "Paid"] ELSE bills[i]
              /\ Len(flats') = Len(flats)
              /\ \A k \in 1..Len(flats) :
                    flats'[k] = IF flats[k].id = f
                                THEN [flats[k] EXCEPT !.maintenance_status = "Paid"]
                                ELSE flats[k]
              /\ (b \in 1..Len(bills) /\ bills[b].flat_id = f)
                    => flats'[FlatRow(flats, bills[b].flat_id)].maintenance_status = "Paid" ]_vars

\* the April Bill of A-103 was marked Paid for A-103 while the seeded Bill of
\* A-103 stays Unpaid
C10_Witness ==
    /\ last.req.op = "markPaid"
    /\ last.status = 200
    /\ last.req.flatId = "A-103"
    /\ last.req.billId = NumFlats + 2
    /\ Len(bills) >= NumFlats + 2
    /\ bills[NumFlats + 2].flat_id = "A-103"
    /\ bills[NumFlats + 2].status = "Paid"
    /\ bills[2].status = "Unpaid"
    /\ flats[2].maintenance_status = "Paid"

(***************************************************************************)
(* Properties of the booking engine, checked under SpecBooking.            *)
(***************************************************************************)
\* the bookings that carry the triple (amenity, date, time slot)
BookingsOfTriple(bk, amenity, date, timeSlot) ==
    {i \in 1..Len(bk) :
        bk[i].amenity = amenity /\ bk[i].date = date /\ bk[i].time_slot = timeSlot}

\* a triple none of whose members is absent
IsTriple(amenity, date, timeSlot) == amenity # Null /\ date # Null /\ timeSlot # Null

\* the request passed authenticateToken
Authenticated(req) == req.caller >= 1

\* C2: in every state at most one Booking carries a given (amenity, date,
\* time-slot) triple, and a book call by an authenticated caller for a triple
\* that some Booking already carries answers 400.
C2_SlotUnique ==
    /\ [](\A i, j \in 1..Len(bookings) :
            (i # j /\ IsTriple(bookings[i].amenity, bookings[i].date, bookings[i].time_slot))
            => j \notin BookingsOfTriple(bookings, bookings[i].amenity, bookings[i].date,
                                         bookings[i].time_slot))
    /\ [][ ( /\ last'.req.op = "book"
             /\ Authenticated(last'.req)
             /\ IsTriple(last'.req.amenity, last'.req.date, last'.req.timeSlot)
             /\ BookingsOfTriple(bookings, last'.req.amenity, last'.req.date,
                                 last'.req.timeSlot) # {} )
           => last'.status = 400 ]_vars

\* the triple held by flat A-101 was asked for by the resident of B-101, who got 400
C2_Witness ==
    /\ last.req.op = "book"
    /\ last.status = 400
    /\ last.req.caller = 4
    /\ \E i \in BookingsOfTriple(bookings, last.req.amenity, last.req.date, last.req.timeSlot) :
          bookings[i].flat_id = "A-101"

\* C8: a book call that finds a Booking with the requested triple writes
\* nothing: bookings, activity_logs and every other table stay as they were.
C8_SlotTakenWritesNothing ==
    [][ ( /\ last'.req.op = "book"
          /\ Authenticated(last'.req)
          /\ IsTriple(last'.req.amenity, last'.req.date, last'.req.timeSlot)
          /\ BookingsOfTriple(bookings, last'.req.amenity, last'.req.date,
                              last'.req.timeSlot) # {} )
        => UNCHANGED tables ]_vars

\* a caller asked again for the triple it holds itself, after another booking
C8_Witness ==
    /\ last.req.op = "book"
    /\ last.status = 400
    /\ Len(bookings) = 2
    /\ Len(activity_logs) = 2
    /\ \E i \in BookingsOfTriple(bookings, last.req.amenity, last.req.date, last.req.timeSlot) :
          bookings[i].user_id = last.req.caller

\* C9 as claimed: a book call by an authenticated caller for a triple that no
\* Booking carries always answers 200 and appends one Booking, Confirmed, with
\* the caller's flat and user; the earlier Bookings stay.
C9_Original ==
    [][ ( /\ last'.req.op = "book"
          /\ Authenticated(last'.req)
          /\ BookingsOfTriple(bookings, last'.req.amenity, last'.req.date,
                              last'.req.timeSlot) = {} )
        => /\ last'.status = 200
           /\ Len(bookings') = Len(bookings) + 1
           /\ SubSeq(bookings', 1, Len(bookings)) = bookings
           /\ bookings'[Len(bookings')].status = "Confirmed"
           /\ bookings'[Len(bookings')].flat_id = users[last'.req.caller].flat_id
           /\ bookings'[Len(bookings')].user_id = last'.req.caller ]_vars

\* C9 as amended: such a call answers 200 and appends exactly one Booking,
\* Confirmed, with the caller's flat, user and the triple, keeping the earlier
\* Bookings, when the caller's flat_id is NULL or the id of a Flat; when it is
\* the id of no Flat the call answers 500 and writes nothing.
C9_BookFreeSlot ==
    [][ ( /\ last'.req.op = "book"
          /\ Authenticated(last'.req)
          /\ BookingsOfTriple(bookings, last'.req.amenity, last'.req.date,
                              last'.req.timeSlot) = {} )
        => LET flat == users[last'.req.caller].flat_id IN
           IF flat = Null \/ \E k \in 1..Len(flats) : flats[k].id = flat
           THEN /\ last'.status = 200
                /\ Len(bookings') = Len(bookings) + 1
                /\ SubSeq(bookings', 1, Len(bookings)) = bookings
                /\ bookings'[Len(bookings')] =
                      [flat_id |-> flat, user_id |-> last'.req.caller,
                       amenity |-> last'.req.amenity, date |-> last'.req.date,
                       time_slot |-> last'.req.timeSlot, status |-> "Confirmed"]
           ELSE /\ last'.status = 500
                /\ UNCHANGED tables ]_vars

\* flat B-101 booked the later slot of the Gym while flat A-101 holds the morning
\* slot of the same day
C9_Witness ==
    /\ last.req.op = "book"
    /\ last.status = 200
    /\ last.req.caller = 4
    /\ last.req.timeSlot = SlotLater
    /\ Len(bookings) = 2
    /\ bookings[1].flat_id = "A-101"
    /\ bookings[1].amenity = last.req.amenity
    /\ bookings[1].date = last.req.date
    /\ bookings[1].time_slot = SlotMorning
    /\ bookings[2].flat_id = "B-101"

(***************************************************************************)
(* Properties under concurrent admission, checked under SpecConc.          *)
(***************************************************************************)
\* slots s and t hold book requests for the same triple
SameTriple(s, t) ==
    /\ slots[s].req.op = "book"
    /\ slots[t].req.op = "book"
    /\ slots[s].req.amenity = slots[t].req.amenity
    /\ slots[s].req.date = slots[t].req.date
    /\ slots[s].req.timeSlot = slots[t].req.timeSlot

\* slots s and t hold generate requests for the same label
SameLabel(s, t) ==
    /\ slots[s].req.op = "generate"
    /\ slots[t].req.op = "generate"
    /\ slots[s].req.month = slots[t].req.month

\* C6: of the book calls in flight for one triple at most one is answered 200,
\* and no interleaving leaves two Bookings with the same triple.
C6_ConcurrentBookExclusive ==
    /\ \A s, t \in Slots :
          (s # t /\ SameTriple(s, t)) => ~(slots[s].status = 200 /\ slots[t].status = 200)
    /\ \A i, j \in 1..Len(bookings) :
          i # j => j \notin BookingsOfTriple(bookings, bookings[i].amenity, bookings[i].date,
                                             bookings[i].time_slot)

\* two book calls for one triple were in flight together; one got 200, one 400
C6_Witness ==
    \E s, t \in Slots :
        /\ s # t
        /\ SameTriple(s, t)
        /\ slots[s].concurrent
        /\ slots[s].status = 200
        /\ slots[t].status = 400
        /\ Len(bookings) = 1

\* C7: of the generate-bills calls in flight for one label at most one is
\* answered 200, and no interleaving leaves a Flat with two Bills of one label.
C7_ConcurrentGenerateExclusive ==
    /\ \A s, t \in Slots :
          (s # t /\ SameLabel(s, t)) => ~(slots[s].status = 200 /\ slots[t].status = 200)
    /\ \A i, j \in 1..Len(bills) :
          (i # j /\ bills[i].flat_id = bills[j].flat_id) => bills[i].month # bills[j].month

\* two generate calls for "April 2026" were in flight together; one got 200, one 400
C7_Witness ==
    \E s, t \in Slots :
        /\ s # t
        /\ SameLabel(s, t)
        /\ slots[s].req.month = "April 2026"
        /\ slots[s].concurrent
        /\ slots[s].status = 200
        /\ slots[t].status = 400
        /\ Len(bills) = 2 * Len(flats)

(***************************************************************************)
(* More properties of mark-paid, checked under Spec.                       *)
(***************************************************************************)
\* C11 as claimed: a mark-paid call by the admin whose flatId or billId
\* matches no row is refused (a 4xx answer) and changes no Flat, no Bill and no
\* ActivityLog row.
C11_Original ==
    [][ ( /\ last'.req.op = "markPaid"
          /\ AdminCall(last'.req)
          /\ (last'.req.flatId \notin FlatIds(flats) \/ last'.req.billId \notin 1..Len(bills)) )
        => ( /\ last'.status \in {400, 404}
             /\ UNCHANGED <<flats, bills, activity_logs>> ) ]_vars

\* the previous and the present step handled the same mark-paid request, both
\* answered 200: the present step is the second of two equal calls
SecondMarkPaid ==
    /\ last.req.op = "markPaid"
    /\ last'.req.op = "markPaid"
    /\ last.status = 200
    /\ last'.status = 200
    /\ last'.req.caller = last.req.caller
    /\ last'.req.flatId = last.req.flatId
    /\ last'.req.billId = last.req.billId

\* C12 as claimed: the second of two equal mark-paid calls leaves the store as
\* the first one left it.
C12_Original == [][ SecondMarkPaid => UNCHANGED tables ]_vars

\* C12 as amended: the second of two equal mark-paid calls leaves every Flat
\* and every Bill (and every table but the ActivityLog) as the first one left
\* it, and appends one more MARK_PAID row to the ActivityLog.
C12_MarkPaidIdempotentOnRows ==
    [][ SecondMarkPaid
        => ( /\ UNCHANGED <<users, flats, bills, bookings, alerts, events, complaints, visitors,
                          expenses, towers>>
             /\ Len(activity_logs') = Len(activity_logs) + 1
             /\ SubSeq(activity_logs', 1, Len(activity_logs)) = activity_logs
             /\ activity_logs'[Len(activity_logs')] = activity_logs[Len(activity_logs)] ) ]_vars

\* the seeded Unpaid bill of A-103 was marked Paid for A-103 twice in a row
C12_Witness ==
    /\ last.req.op = "markPaid"
    /\ last.status = 200
    /\ last.req.flatId = "A-103"
    /\ last.req.billId = 2
    /\ Len(activity_logs) = 2
    /\ activity_logs[1] = activity_logs[2]
    /\ activity_logs[2].action = "MARK_PAID"
    /\ bills[2].status = "Paid"
    /\ flats[2].maintenance_status = "Paid"

\* C13: a mark-paid call by the admin that names an existing Flat and a Bill
\* owned by another Flat is answered 200, marks that Bill Paid and marks the
\* named Flat Paid; the owning Flat keeps its status.
C13_MarkPaidTrustsPair ==
    [][ ( /\ last'.req.op = "markPaid"
          /\ AdminCall(last'.req)
          /\ last'.req.flatId \in FlatIds(flats)
          /\ last'.req.billId \in 1..Len(bills)
          /\ bills[last'.req.billId].flat_id # last'.req.flatId )
        => LET b == last'.req.billId
               owner == FlatRow(flats, bills[b].flat_id)
           IN /\ last'.status = 200
              /\ bills'[b].status = "Paid"
              /\ flats'[FlatRow(flats, last'.req.flatId)].maintenance_status = "Paid"
              /\ flats'[owner] = flats[owner] ]_vars

\* the bill of A-103 was marked Paid in the name of A-101, and A-103 is Unpaid
C13_Witness ==
    /\ last.req.op = "markPaid"
    /\ last.status = 200
    /\ last.req.flatId = "A-101"
    /\ last.req.billId = 2
    /\ bills[2].flat_id = "A-103"
    /\ bills[2].status = "Paid"
    /\ flats[1].maintenance_status = "Paid"
    /\ flats[2].maintenance_status = "Unpaid"

(***************************************************************************)
(* The admin gate, checked under SpecAdmin.                                *)
(***************************************************************************)
AdminOps == {"generate", "markPaid", "createAlert", "createEvent"}

\* C14: generate-bills, mark-paid, create-alert and create-event are open to
\* the admin only: a call without a token, with a token that does not verify
\* or from a user whose role is not admin is refused with 401 or 403 and every
\* table is left unchanged.
C14_AdminOnly ==
    [][ (last'.req.op \in AdminOps /\ ~AdminCall(last'.req))
        => (last'.status \in {401, 403} /\ UNCHANGED tables) ]_vars

\* the admin has created an alert, and a resident's create-event was refused
C14_Witness ==
    /\ Len(alerts) = 1
    /\ last.req.op = "createEvent"
    /\ last.req.caller = 3
    /\ last.status = 403
    /\ events = << >>
    /\ Len(activity_logs) = 1

(***************************************************************************)
(* The visitor ledger, checked under SpecVisitors.                         *)
(***************************************************************************)
\* C15: every Visitor row has status Out exactly when its exit timestamp is
\* set and status In exactly when its exit timestamp is null.
C15_StatusMatchesExit ==
    \A i \in 1..Len(visitors) :
        /\ visitors[i].status = "Out" <=> visitors[i].exit_time # NoTime
        /\ visitors[i].status = "In" <=> visitors[i].exit_time = NoTime

\* one visitor has left and another is still inside
C15_Witness ==
    /\ Len(visitors) >= 2
    /\ visitors[1].status = "Out"
    /\ visitors[1].exit_time >= 1
    /\ visitors[2].status = "In"
    /\ visitors[2].exit_time = NoTime

\* the row a successful visitor-entry appends
EntryAppended(req) ==
    /\ Len(visitors') = Len(visitors) + 1
    /\ SubSeq(visitors', 1, Len(visitors)) = visitors
    /\ visitors'[Len(visitors')].status = "In"
    /\ visitors'[Len(visitors')].entry_time = now
    /\ visitors'[Len(visitors')].exit_time = NoTime
    /\ visitors'[Len(visitors')].flat_id = req.flatId
    /\ visitors'[Len(visitors')].name = req.name

C17_Original ==
    [][ ( /\ last'.req.op = "visitorExit"
          /\ Authenticated(last'.req)
          /\ last'.req.id \notin 1..Len(visitors) )
        => ( /\ last'.status \in {400, 404}
             /\ UNCHANGED <<visitors, activity_logs>> ) ]_vars

\* C18: a successful visitor-exit for an existing Visitor leaves it Out with an
\* exit timestamp that is set and not before its entry timestamp; a Visitor
\* that is Out stays Out in every step, its exit timestamp stays set and never
\* moves to an earlier time, so no Visitor returns to In.
C18_ExitSticks ==
    [][ /\ \A i \in 1..Len(visitors) :
              visitors[i].status = "Out"
              => ( /\ visitors'[i].status = "Out"
                   /\ visitors'[i].exit_time # NoTime
                   /\ visitors'[i].exit_time >= visitors[i].exit_time )
        /\ ( /\ last'.req.op = "visitorExit"
             /\ last'.status = 200
             /\ last'.req.id \in 1..Len(visitors) )
           => ( /\ visitors'[last'.req.id].status = "Out"
                /\ visitors'[last'.req.id].exit_time # NoTime
                /\ visitors'[last'.req.id].exit_time >= visitors'[last'.req.id].entry_time
                /\ visitors'[last'.req.id].exit_time = now ) ]_vars

\* visitor 1 entered at second 1, left, and a later second exit moved its exit
\* timestamp forward
C18_Witness ==
    /\ last.req.op = "visitorExit"
    /\ last.status = 200
    /\ last.req.id = 1
    /\ Len(visitors) = 1
    /\ visitors[1].status = "Out"
    /\ visitors[1].entry_time = 1
    /\ visitors[1].exit_time = 3
    /\ Len(activity_logs) = 3
    /\ activity_logs[2].action = "VISITOR_EXIT"
    /\ activity_logs[3].action = "VISITOR_EXIT"

\* the ids of the rows of a listing
BodyIds(body) == {body[k].id : k \in 1..Len(body)}

\* a listing is ordered by entry timestamp, latest first
EntryTimeDesc(body) ==
    \A i, j \in 1..Len(body) : i < j => body[i].entry_time >= body[j].entry_time

ListedOk == last'.req.op = "listVisitors" /\ last'.status = 200

\* C19 as claimed: the visitor listing returns exactly the Visitors whose
\* status is In, none that is Out, ordered by entry timestamp descending.
C19_Original ==
    [][ ListedOk
        => ( /\ BodyIds(last'.body) = {i \in 1..Len(visitors) : visitors[i].status = "In"}
             /\ \A k \in 1..Len(last'.body) : last'.body[k].status = "In"
             /\ EntryTimeDesc(last'.body) ) ]_vars

\* C19 as amended: the visitor listing returns every Visitor row once, those
\* with status In and those with status Out alike, each with its stored
\* columns, ordered by entry timestamp descending; it changes no table.
C19_ListsAllVisitors ==
    [][ ListedOk
        => ( /\ Len(last'.body) = Len(visitors)
             /\ BodyIds(last'.body) = 1..Len(visitors)
             /\ \A k \in 1..Len(last'.body) :
                    last'.body[k] = VisitorRow(visitors, last'.body[k].id)
             /\ EntryTimeDesc(last'.body)
             /\ UNCHANGED tables ) ]_vars

\* a listing of two visitors: the later one, still In, before the earlier one,
\* who is Out
C19_Witness ==
    /\ last.req.op = "listVisitors"
    /\ last.status = 200
    /\ Len(last.body) = 2
    /\ last.body[1].id = 2
    /\ last.body[1].status = "In"
    /\ last.body[2].id = 1
    /\ last.body[2].status = "Out"
    /\ last.body[1].entry_time > last.body[2].entry_time

(***************************************************************************)
(* The stats route, checked under SpecStats.                               *)
(***************************************************************************)
\* the amounts of the bills with indices in S, added up
RECURSIVE SumOver(_, _)
SumOver(bs, S) ==
    IF S = {} THEN 0
    ELSE LET i == CHOOSE k \in S : TRUE IN bs[i].amount + SumOver(bs, S \ {i})

BillsWith(bs, st) == {i \in 1..Len(bs) : bs[i].status = st}

\* C20: the admin's stats call answers with the number of flats, the number of
\* flats whose maintenance_status is Paid, the number of complaints whose
\* status is not Resolved, the number of visitors whose status is In, the sum
\* of the amounts of the Paid bills and the sum of the amounts of the Unpaid
\* bills; with no Paid (no Unpaid) bill the sum is the number 0, and on the
\* empty store every field is 0.
C20_StatsCountsAndSums ==
    [][ (last'.req.op = "stats" /\ last'.status = 200)
        => LET b == last'.body IN
           /\ b.totalFlats = Len(flats)
           /\ b.paidFlats = Cardinality({i \in 1..Len(flats) : flats[i].maintenance_status = "Paid"})
           /\ b.pendingComplaints =
                  Len(complaints) - Cardinality({i \in 1..Len(complaints) :
                                                     complaints[i].status = "Resolved"})
           /\ b.activeVisitors = Cardinality({i \in 1..Len(visitors) : visitors[i].status = "In"})
           /\ b.totalCollected = SumOver(bills, BillsWith(bills, "Paid"))
           /\ b.totalPending = SumOver(bills, BillsWith(bills, "Unpaid"))
           /\ BillsWith(bills, "Paid") = {} => b.totalCollected = 0
           /\ BillsWith(bills, "Unpaid") = {} => b.totalPending = 0
           /\ (flats = << >> /\ bills = << >> /\ complaints = << >> /\ visitors = << >>)
              => b = [totalFlats |-> 0, paidFlats |-> 0, pendingComplaints |-> 0,
                      activeVisitors |-> 0, totalCollected |-> 0, totalPending |-> 0] ]_vars

\* the stats of a store with two Paid bills of different amounts and no Unpaid
\* bill, a Resolved complaint and a visitor who is In
C20_Witness ==
    /\ last.req.op = "stats"
    /\ last.status = 200
    /\ Len(bills) = 2
    /\ bills[1].amount # bills[2].amount
    /\ last.body.totalCollected = SeedAmount + 2000
    /\ last.body.totalPending = 0
    /\ Len(complaints) = 1
    /\ complaints[1].status = "Resolved"
    /\ last.body.pendingComplaints = 0
    /\ last.body.activeVisitors = 1

(***************************************************************************)
(* The read-only routes, checked under SpecReads.                          *)
(***************************************************************************)
ReadOps == {"stats", "predict", "listVisitors", "listFlats"}

\* C21: a stats call, a prediction call and a listing call leave every table,
\* the ActivityLog included, as it was, whether the call is answered or
\* refused.
C21_ReadsWriteNothing ==
    [][ last'.req.op \in ReadOps => UNCHANGED tables ]_vars

\* the admin's stats were answered after a visitor entry and a visitor exit:
\* the log holds those two rows only
C21_Witness ==
    /\ last.req.op = "stats"
    /\ last.status = 200
    /\ Len(visitors) = 1
    /\ visitors[1].status = "Out"
    /\ last.body.activeVisitors = 0
    /\ Len(activity_logs) = 2
    /\ activity_logs[2].action = "VISITOR_EXIT"

(***************************************************************************)
(* The budget prediction, checked under SpecPredict.                       *)
(***************************************************************************)
Predicted == last'.req.op = "predict" /\ last'.status = 200

Recommendations == {SuggestMaintain, SuggestIncrease100, SuggestIncrease200}

\* C22: the admin's prediction call is always answered 200; the answer is the
\* short one (suggestion "Insufficient data", growth 0) exactly when the
\* expenses table has fewer than 2 rows, and with 2 or more rows it carries
\* the two amounts, a growth value and one of the three recommendations.
C22_InsufficientBelowTwoRows ==
    [][ (last'.req.op = "predict" /\ AdminCall(last'.req))
        => /\ last'.status = 200
           /\ last'.body.suggestion = SuggestInsufficient <=> Len(expenses) < 2
           /\ Len(expenses) < 2
              => last'.body = [suggestion |-> SuggestInsufficient,
                               growth |-> [kind |-> "finite", hundredths |-> 0]]
           /\ Len(expenses) >= 2
              => /\ last'.body.suggestion \in Recommendations
                 /\ DOMAIN last'.body = {"recentExpense", "previousExpense", "growth",
                                         "suggestion", "confidence"} ]_vars

\* the prediction over a table of exactly one expense row
C22_Witness ==
    /\ last.req.op = "predict"
    /\ last.status = 200
    /\ Len(expenses) = 1
    /\ last.body.suggestion = SuggestInsufficient
    /\ last.body.growth.hundredths = 0

\* C23: with at least 2 expense rows the prediction takes recent and previous
\* from the two rows with the latest dates, recent from the later one; when
\* previous > 0, growth is (recent - previous) / previous * 100 and the answer
\* suggests the larger increase iff growth > 10, the smaller increase iff
\* 5 < growth <= 10, and no change iff growth <= 5.
C23_GrowthBands ==
    [][ (Predicted /\ Len(expenses) >= 2)
        => LET b == last'.body
               recent == b.recentExpense
               previous == b.previousExpense
               diff100 == (recent - previous) * 100
           IN /\ \E r, q \in 1..Len(expenses) :
                    /\ r # q
                    /\ expenses[r].amount = recent
                    /\ expenses[q].amount = previous
                    /\ expenses[r].date >= expenses[q].date
                    /\ \A k \in 1..Len(expenses) \ {r, q} : expenses[k].date <= expenses[q].date
              /\ previous > 0
                 => /\ b.suggestion = SuggestIncrease200 <=> diff100 > 10 * previous
                    /\ b.suggestion = SuggestIncrease100
                       <=> (diff100 > 5 * previous /\ diff100 <= 10 * previous)
                    /\ b.suggestion = SuggestMaintain <=> diff100 <= 5 * previous
                    /\ b.growth.kind = "finite"
                    /\ (diff100 % previous = 0) => b.growth.hundredths = (diff100 \div previous) * 100
       ]_vars

\* previous 100000 and recent 110000: growth is exactly 10, the smaller increase
C23_Witness ==
    /\ last.req.op = "predict"
    /\ last.status = 200
    /\ Len(expenses) = 2
    /\ last.body.previousExpense = 100000
    /\ last.body.recentExpense = 110000
    /\ last.body.growth = [kind |-> "finite", hundredths |-> 1000]
    /\ last.body.suggestion = SuggestIncrease100

(***************************************************************************)
(* Payment status across flats and bills, checked under Spec.              *)
(***************************************************************************)
\* C24 as claimed: in every state reached from the seeded store by
\* generate-bills and mark-paid calls, a Flat whose maintenance_status is Paid
\* has no Bill with status Unpaid, and every Bill with status Paid belongs to
\* a Flat whose maintenance_status is Paid.
C24_Original ==
    /\ \A i \in 1..Len(flats) : \A b \in 1..Len(bills) :
           (flats[i].maintenance_status = "Paid" /\ bills[b].flat_id = flats[i].id)
           => bills[b].status # "Unpaid"
    /\ \A b \in 1..Len(bills) :
           bills[b].status = "Paid"
           => \E i \in 1..Len(flats) :
                  flats[i].id = bills[b].flat_id /\ flats[i].maintenance_status = "Paid"

\* C28: no step takes a Bill's status or a Flat's maintenance_status from Paid
\* back to Unpaid: a Bill or Flat that is Paid is Paid after every step, also
\* after a generate-bills step that adds Unpaid Bills for the Flat.
C28_PaidStaysPaid ==
    [][ /\ Len(bills') >= Len(bills)
        /\ Len(flats') = Len(flats)
        /\ \A b \in 1..Len(bills) : bills[b].status = "Paid" => bills'[b].status = "Paid"
        /\ \A i \in 1..Len(flats) :
               flats[i].maintenance_status = "Paid"
               => (flats'[i].id = flats[i].id /\ flats'[i].maintenance_status = "Paid") ]_vars

\* the bill of A-103 was marked Paid for A-103, and a later batch added an
\* Unpaid bill for A-103: bill and flat are still Paid
C28_Witness ==
    /\ last.req.op = "generate"
    /\ last.status = 200
    /\ bills[2].status = "Paid"
    /\ flats[2].id = "A-103"
    /\ flats[2].maintenance_status = "Paid"
    /\ Len(activity_logs) = 2
    /\ activity_logs[1].action = "MARK_PAID"
    /\ \E b \in (Len(flats) + 1)..Len(bills) :
           bills[b].flat_id = "A-103" /\ bills[b].status = "Unpaid"

(***************************************************************************)
(* Append-only tables, checked under SpecAdmin.                            *)
(***************************************************************************)
\* every row of the table before the step is at the same place after it
Kept(t, u) == Len(u) >= Len(t) /\ SubSeq(u, 1, Len(t)) = t

\* C25: ActivityLog, Alert and Event rows are append-only: every step keeps
\* each existing row of the three tables, with the same contents, and at most
\* adds rows after them.
C25_AppendOnly ==
    [][ /\ Kept(activity_logs, activity_logs')
        /\ Kept(alerts, alerts')
        /\ Kept(events, events') ]_vars

\* an alert and an event were created and a bill was marked Paid after them:
\* the first log row is still the alert's
C25_Witness ==
    /\ Len(alerts) = 1
    /\ Len(events) = 1
    /\ Len(activity_logs) = 3
    /\ activity_logs[1].action = "CREATE_ALERT"
    /\ activity_logs[2].action = "CREATE_EVENT"
    /\ activity_logs[3].action = "MARK_PAID"

(***************************************************************************)
(* Bookings are never released, checked under SpecBooking.                 *)
(***************************************************************************)
\* C26: there is no cancellation: every step keeps each existing Booking
\* unchanged, and a book call by an authenticated caller, the user that holds
\* the booking included, for a triple that a Booking carries is answered 400
\* and leaves the bookings as they were.
C26_NoCancellation ==
    [][ /\ Kept(bookings, bookings')
        /\ ( /\ last'.req.op = "book"
             /\ Authenticated(last'.req)
             /\ IsTriple(last'.req.amenity, last'.req.date, last'.req.timeSlot)
             /\ BookingsOfTriple(bookings, last'.req.amenity, last'.req.date,
                                 last'.req.timeSlot) # {} )
           => (last'.status = 400 /\ bookings' = bookings) ]_vars

\* a resident booked a slot, a user registered, and the resident's second call
\* for its own slot was refused
C26_Witness ==
    /\ last.req.op = "book"
    /\ last.status = 400
    /\ last.req.caller = 3
    /\ Len(bookings) = 1
    /\ bookings[1].user_id = 3
    /\ bookings[1].time_slot = last.req.timeSlot
    /\ bookings[1].amenity = last.req.amenity
    /\ Len(activity_logs) = 2
    /\ activity_logs[1].action = "BOOK_AMENITY"
    /\ activity_logs[2].action = "REGISTER"

(***************************************************************************)
(* Requests with a missing field, checked under SpecMissing.               *)
(***************************************************************************)
\* C27 as claimed: a generate-bills call by the admin without a cycle label
\* and a book call by an authenticated caller without amenity, date or time
\* slot are refused with 400 and write nothing, so repeating them creates no
\* second batch and no second booking.
C27_Original ==
    [][ ( \/ /\ last'.req.op = "generate"
             /\ AdminCall(last'.req)
             /\ last'.req.month = Null
          \/ /\ last'.req.op = "book"
             /\ Authenticated(last'.req)
             /\ ~IsTriple(last'.req.amenity, last'.req.date, last'.req.timeSlot) )
        => (last'.status = 400 /\ UNCHANGED tables) ]_vars

(***************************************************************************)
(* Registration and roles, checked under SpecBooking.                      *)
(***************************************************************************)
\* C29: register takes no token; a call that is answered 200 appends one user
\* whose role is the role of the request body, resident when the body has
\* none, so a body with role admin creates an admin.  A call that carries a
\* password and a username some user already has is answered 400 and adds no
\* user and no ActivityLog row (without a password the answer is 500, again
\* with nothing added).  No step of any route changes the role of an
\* existing user.
C29_RegisterStoresRole ==
    [][ /\ Kept(users, users')
        /\ last'.req.op = "register"
           => LET req == last'.req
                  used == \E i \in 1..Len(users) : users[i].username = req.username
              IN /\ "caller" \notin DOMAIN req
                 /\ last'.status = 200
                    <=> (req.password # Null /\ ~used)
                 /\ last'.status = 200
                    => /\ Len(users') = Len(users) + 1
                       /\ users'[Len(users')].username = req.username
                       /\ users'[Len(users')].role
                              = (IF req.role = Null THEN "resident" ELSE req.role)
                       /\ Len(activity_logs') = Len(activity_logs) + 1
                 /\ (used /\ req.password # Null)
                    => (last'.status = 400 /\ UNCHANGED tables)
                 /\ req.password = Null
                    => (last'.status = 500 /\ UNCHANGED tables) ]_vars

\* a register with role admin created user 5, and a second register with the
\* same username was answered 400: still five users and one log row
C29_Witness ==
    /\ last.req.op = "register"
    /\ last.status = 400
    /\ last.req.username = "newuser"
    /\ Len(users) = 5
    /\ users[5].username = "newuser"
    /\ users[5].role = "admin"
    /\ Len(activity_logs) = 1
    /\ activity_logs[1].action = "REGISTER"

(***************************************************************************)
(* Seeding and request handling at start-up, checked under SpecBoot.       *)
(***************************************************************************)
\* towers and flats exist, but the seeded users, bills or expenses do not
HalfSeeded ==
    /\ towers # {}
    /\ flats # << >>
    /\ \/ \E u \in 1..Len(SeedUsers) : ~UsernameTaken(users, SeedUsers[u].username)
       \/ \E f \in 1..Len(flats) : \A b \in 1..Len(bills) : bills[b].flat_id # flats[f].id
       \/ expenses = << >>

\* C30 as claimed: no request is handled in a state where towers and flats
\* exist but the seeded users, bills and expenses do not, and seedData on a
\* store that already has towers changes no table.
C30_Original ==
    [][ /\ last'.req.op = "register" => ~HalfSeeded
        /\ (last'.req.op = "seedData" /\ seedPc = "start" /\ towers # {})
           => UNCHANGED tables ]_vars

====
